---- MODULE Spec2Model ----
(***************************************************************************)
(* VideoDetectX, src/main.py: the command-line driver (main) and the two   *)
(* detectors, detect_camera_shake and detect_faces_objects, as one         *)
(* sequential state machine.                                               *)
(*                                                                         *)
(* The environment of a run is the video file (does it exist, can the      *)
(* decoder open it, its frames, its frame rate) and the output sink (can   *)
(* it be opened for writing).  A frame is represented by its grayscale     *)
(* content, a number in 0..MaxPix.  The external numeric primitives are    *)
(* deterministic stand-ins: the mean optical-flow magnitude of a frame     *)
(* pair is the absolute difference of the two frames, and the cascade      *)
(* classifier returns as many boxes as the frame's content says.           *)
(* A timestamp frame_count / fps is kept as the exact fraction.            *)
(***************************************************************************)
EXTENDS Integers, Sequences, FiniteSets

\* ---------------------------------------------------------------- bounds
MaxFrames == 3
MaxPix == 2
MaxFps == 2
MaxThreshold == 2

Frames == 0..MaxPix
FpsValues == 0..MaxFps
Thresholds == -1..MaxThreshold
Videos == UNION {[1..n -> Frames] : n \in 0..MaxFrames}

Modes == {"shake", "face", "object"}
CascadeArgs == {"face", "object", "other"}

VARIABLES
    fileExists,    \* os.path.isfile(video)
    canOpen,       \* what cap.isOpened() answers after VideoCapture(video_path)
    video,         \* the frames cap.read() yields, in order
    srcFps,        \* cap.get(cv2.CAP_PROP_FPS)
    sinkOk,        \* whether open(output_path, 'w') succeeds
    pc,            \* position of the run
    caller,        \* "main", "direct" (the detector called as a function), "none"
    fn,            \* "shake", "detect", "none": the detector running
    cascade_type,  \* detect_faces_objects' argument
    threshold,     \* detect_camera_shake's argument
    cap,           \* "none", "open", "released"
    pos,           \* frames consumed from cap
    reads,         \* cap.read() calls of this run
    prev_gray,     \* the retained previous frame
    frame_count,
    fps,           \* the local fps
    events,        \* shake_timestamps / detection_results
    result,        \* the list the detector returned
    returned,      \* whether the detector returned
    exitCode,      \* -1 while the process has not exited
    attempts,      \* open(output_path, 'w') calls of this run
    writes,        \* documents written by this run
    outFile,       \* the file at output_path
    prevShake      \* the previous returned shake run on this video

vars == <<fileExists, canOpen, video, srcFps, sinkOk, pc, caller, fn, cascade_type,
          threshold, cap, pos, reads, prev_gray, frame_count, fps, events, result,
          returned, exitCode, attempts, writes, outFile, prevShake>>

envVars == <<fileExists, canOpen, video, srcFps, sinkOk>>

\* ------------------------------------------------------- pure operators
Abs(x) == IF x < 0 THEN -x ELSE x

\* calcOpticalFlowFarneback + cartToPolar + np.mean on a frame pair.
FlowMean(prev, cur) == Abs(cur - prev)

\* The comparison turned round.
ExceedsThreshold_Inverted(mean_magnitude, t) == mean_magnitude < t

\* mean_magnitude > threshold
ExceedsThreshold(mean_magnitude, t) == mean_magnitude > t

\* Floor division, frame_count // fps.
Divide_Floor(n, d) == [num |-> n \div d, den |-> 1]

\* frame_count / fps, the exact quotient.
Divide(n, d) == [num |-> n, den |-> d]

\* cascade.detectMultiScale(gray, 1.1, 4): the boxes [x, y, w, h], in the
\* classifier's own order.
DetectMultiScale(gray) == [i \in 1..gray |-> <<10 * (gray - i + 1), 10 * i, 20, 20>>]

\* detections.tolist()
ToList(detections) == [i \in 1..Len(detections) |-> detections[i]]

\* The event numbered from 0, as if frame_count started at 0.
ShakeRecord_ZeroBased(fc, f, mean_magnitude) ==
    [frame |-> fc - 1, timestamp |-> [num |-> fc - 1, den |-> f],
     magnitude |-> mean_magnitude]

ShakeRecord(fc, f, mean_magnitude) ==
    [frame |-> fc, timestamp |-> Divide(fc, f), magnitude |-> mean_magnitude]

DetectionRecord(fc, f, detections) ==
    [frame |-> fc, timestamp |-> Divide(fc, f), count |-> Len(detections),
     locations |-> IF Len(detections) > 0 THEN ToList(detections) ELSE <<>>]

\* The total off by one.
ShakeDocument_OffByOne(evs) ==
    [exists |-> TRUE, kind |-> "shake", detection_type |-> "none",
     events |-> evs, total |-> Len(evs) + 1]

ShakeDocument(evs) ==
    [exists |-> TRUE, kind |-> "shake", detection_type |-> "none",
     events |-> evs, total |-> Len(evs)]

DetectionDocument(ctype, evs) ==
    [exists |-> TRUE, kind |-> "detect", detection_type |-> ctype,
     events |-> evs, total |-> Len(evs)]

NoFile == [exists |-> FALSE, kind |-> "none", detection_type |-> "none",
           events |-> <<>>, total |-> 0]

NoRun == [valid |-> FALSE, threshold |-> 0, events |-> <<>>]

\* Where control goes when the detector returns.
AfterReturn == IF caller = "main" THEN "main_report" ELSE "returned"

\* ------------------------------------------------------------------ Init
FreshRun ==
    /\ pc = "idle"
    /\ caller = "none"
    /\ fn = "none"
    /\ cascade_type = "none"
    /\ threshold = 0
    /\ cap = "none"
    /\ pos = 0
    /\ reads = 0
    /\ prev_gray = 0
    /\ frame_count = 0
    /\ fps = 0
    /\ events = <<>>
    /\ result = <<>>
    /\ returned = FALSE
    /\ exitCode = -1
    /\ attempts = 0
    /\ writes = 0

Init ==
    /\ fileExists \in BOOLEAN
    /\ canOpen \in BOOLEAN
    /\ canOpen => fileExists
    /\ video \in Videos
    /\ ~canOpen => video = <<>>
    /\ srcFps \in FpsValues
    /\ ~canOpen => srcFps = 0
    /\ sinkOk \in BOOLEAN
    /\ FreshRun
    /\ outFile = NoFile
    /\ prevShake = NoRun

\* ------------------------------------------------------ code fragments
\* Lines 60-66: the thresholding and the append, given the pair's mean.
ShakeAppend(evs, fc, f, mean_magnitude, t) ==
    IF ExceedsThreshold(mean_magnitude, t)
    THEN Append(evs, ShakeRecord(fc, f, mean_magnitude))
    ELSE evs

\* The previous frame never advanced.
NextPrev_Stale(prev, gray) == prev

\* Line 69: prev_gray = gray
NextPrev(prev, gray) == gray

\* A frame with a single box dropped.
DetectAppend_MoreThanOne(evs, fc, f, detections) ==
    IF Len(detections) > 1
    THEN Append(evs, [frame |-> fc, timestamp |-> [num |-> fc, den |-> f],
                      count |-> Len(detections), locations |-> detections])
    ELSE evs

\* Lines 132-139: the append for a frame with at least one box.
DetectAppend(evs, fc, f, detections) ==
    IF Len(detections) > 0
    THEN Append(evs, DetectionRecord(fc, f, detections))
    ELSE evs

\* Every cascade type accepted.
KnownCascade_Any(ctype) == TRUE

\* Lines 106-112: whether the cascade type names a classifier.
KnownCascade(ctype) == ctype \in {"face", "object"}

\* The existence check left out.
InputMissing_Unchecked == FALSE

\* Line 169: not os.path.isfile(args.video)
InputMissing == ~fileExists

\* A detector's early "return []".
ReturnEmpty ==
    /\ result' = <<>>
    /\ returned' = TRUE
    /\ pc' = AfterReturn

\* An exception leaves the detector; under main the process dies with it.
Raise ==
    /\ pc' = "raised"
    /\ exitCode' = IF caller = "main" THEN 1 ELSE exitCode

\* --------------------------------------------------------------- actions
\* main: parse the arguments, check the input file, dispatch on the mode.
MainStart ==
    /\ pc = "idle"
    /\ \E m \in Modes, t \in Thresholds :
        /\ caller' = "main"
        /\ IF InputMissing
           THEN /\ pc' = "exited"
                /\ exitCode' = 1
                /\ UNCHANGED <<fn, cascade_type, threshold>>
           ELSE /\ exitCode' = exitCode
                /\ IF m = "shake"
                   THEN /\ fn' = "shake"
                        /\ threshold' = t
                        /\ pc' = "shake_open"
                        /\ UNCHANGED cascade_type
                   ELSE /\ fn' = "detect"
                        /\ cascade_type' = m
                        /\ pc' = "det_open"
                        /\ UNCHANGED threshold
    /\ UNCHANGED <<envVars, cap, pos, reads, prev_gray, frame_count, fps, events,
                   result, returned, attempts, writes, outFile, prevShake>>

\* detect_camera_shake called as a function.
CallShake ==
    /\ pc = "idle"
    /\ \E t \in Thresholds : threshold' = t
    /\ caller' = "direct"
    /\ fn' = "shake"
    /\ pc' = "shake_open"
    /\ UNCHANGED <<envVars, cascade_type, cap, pos, reads, prev_gray, frame_count,
                   fps, events, result, returned, exitCode, attempts, writes,
                   outFile, prevShake>>

\* detect_faces_objects called as a function, with any cascade type.
CallDetect ==
    /\ pc = "idle"
    /\ \E c \in CascadeArgs : cascade_type' = c
    /\ caller' = "direct"
    /\ fn' = "detect"
    /\ pc' = "det_open"
    /\ UNCHANGED <<envVars, threshold, cap, pos, reads, prev_gray, frame_count,
                   fps, events, result, returned, exitCode, attempts, writes,
                   outFile, prevShake>>

\* detect_camera_shake, lines 22-28: open the source, read the frame rate.
ShakeOpen ==
    /\ pc = "shake_open"
    /\ IF ~canOpen
       THEN /\ ReturnEmpty
            /\ UNCHANGED <<cap, fps>>
       ELSE /\ cap' = "open"
            /\ fps' = srcFps
            /\ pc' = "shake_first"
            /\ UNCHANGED <<result, returned>>
    /\ UNCHANGED <<envVars, caller, fn, cascade_type, threshold, pos, reads,
                   prev_gray, frame_count, events, exitCode, attempts, writes,
                   outFile, prevShake>>

\* detect_camera_shake, lines 31-40: the first frame.
ShakeReadFirst ==
    /\ pc = "shake_first"
    /\ reads' = reads + 1
    /\ IF pos >= Len(video)
       THEN /\ ReturnEmpty
            /\ UNCHANGED <<pos, prev_gray, events, frame_count>>
       ELSE /\ pos' = pos + 1
            /\ prev_gray' = video[pos + 1]
            /\ events' = <<>>
            /\ frame_count' = 1
            /\ pc' = "shake_loop"
            /\ UNCHANGED <<result, returned>>
    /\ UNCHANGED <<envVars, caller, fn, cascade_type, threshold, cap, fps,
                   exitCode, attempts, writes, outFile, prevShake>>

\* detect_camera_shake, lines 42-70: one pass of the loop.
ShakeStep ==
    /\ pc = "shake_loop"
    /\ reads' = reads + 1
    /\ IF pos >= Len(video)
       THEN /\ pc' = "shake_finish"
            /\ UNCHANGED <<pos, prev_gray, events, frame_count, exitCode>>
       ELSE LET gray == video[pos + 1]
                mean_magnitude == FlowMean(prev_gray, gray)
            IN  /\ pos' = pos + 1
                /\ IF ExceedsThreshold(mean_magnitude, threshold) /\ fps = 0
                   THEN /\ Raise
                        /\ UNCHANGED <<prev_gray, events, frame_count>>
                   ELSE /\ events' = ShakeAppend(events, frame_count, fps,
                                                 mean_magnitude, threshold)
                        /\ prev_gray' = NextPrev(prev_gray, gray)
                        /\ frame_count' = frame_count + 1
                        /\ pc' = "shake_loop"
                        /\ UNCHANGED exitCode
    /\ UNCHANGED <<envVars, caller, fn, cascade_type, threshold, cap, fps, result,
                   returned, attempts, writes, outFile, prevShake>>

\* detect_camera_shake, lines 72-82: release, write the report, return.
ShakeFinish ==
    /\ pc = "shake_finish"
    /\ cap' = "released"
    /\ attempts' = attempts + 1
    /\ IF sinkOk
       THEN /\ outFile' = ShakeDocument(events)
            /\ writes' = writes + 1
            /\ result' = events
            /\ returned' = TRUE
            /\ pc' = AfterReturn
            /\ UNCHANGED exitCode
       ELSE /\ Raise
            /\ UNCHANGED <<outFile, writes, result, returned>>
    /\ UNCHANGED <<envVars, caller, fn, cascade_type, threshold, pos, reads,
                   prev_gray, frame_count, fps, events, prevShake>>

\* detect_faces_objects, lines 97-119: open the source, pick the cascade.
DetOpen ==
    /\ pc = "det_open"
    /\ IF ~canOpen
       THEN /\ ReturnEmpty
            /\ UNCHANGED <<cap, fps, events, frame_count>>
       ELSE /\ cap' = "open"
            /\ fps' = srcFps
            /\ IF ~KnownCascade(cascade_type)
               THEN /\ ReturnEmpty
                    /\ UNCHANGED <<events, frame_count>>
               ELSE /\ events' = <<>>
                    /\ frame_count' = 0
                    /\ pc' = "det_loop"
                    /\ UNCHANGED <<result, returned>>
    /\ UNCHANGED <<envVars, caller, fn, cascade_type, threshold, pos, reads,
                   prev_gray, exitCode, attempts, writes, outFile, prevShake>>

\* detect_faces_objects, lines 121-141: one pass of the loop.
DetStep ==
    /\ pc = "det_loop"
    /\ reads' = reads + 1
    /\ IF pos >= Len(video)
       THEN /\ pc' = "det_finish"
            /\ UNCHANGED <<pos, events, frame_count, exitCode>>
       ELSE LET gray == video[pos + 1]
                detections == DetectMultiScale(gray)
            IN  /\ pos' = pos + 1
                /\ IF Len(detections) > 0 /\ fps = 0
                   THEN /\ Raise
                        /\ UNCHANGED <<events, frame_count>>
                   ELSE /\ events' = DetectAppend(events, frame_count, fps, detections)
                        /\ frame_count' = frame_count + 1
                        /\ pc' = "det_loop"
                        /\ UNCHANGED exitCode
    /\ UNCHANGED <<envVars, caller, fn, cascade_type, threshold, cap, fps,
                   prev_gray, result, returned, attempts, writes, outFile, prevShake>>

\* detect_faces_objects, lines 143-154: release, write the report, return.
DetFinish ==
    /\ pc = "det_finish"
    /\ cap' = "released"
    /\ attempts' = attempts + 1
    /\ IF sinkOk
       THEN /\ outFile' = DetectionDocument(cascade_type, events)
            /\ writes' = writes + 1
            /\ result' = events
            /\ returned' = TRUE
            /\ pc' = AfterReturn
            /\ UNCHANGED exitCode
       ELSE /\ Raise
            /\ UNCHANGED <<outFile, writes, result, returned>>
    /\ UNCHANGED <<envVars, caller, fn, cascade_type, threshold, pos, reads,
                   prev_gray, frame_count, fps, events, prevShake>>

\* main, lines 184-192: the closing messages; the process ends with status 0.
MainReport ==
    /\ pc = "main_report"
    /\ pc' = "exited"
    /\ exitCode' = 0
    /\ UNCHANGED <<envVars, caller, fn, cascade_type, threshold, cap, pos, reads,
                   prev_gray, frame_count, fps, events, result, returned, attempts,
                   writes, outFile, prevShake>>

Terminated == pc \in {"exited", "returned", "raised"}

\* The program is run again on the same video: every local starts afresh,
\* the file system stays.  prevShake remembers the last returned shake run.
Reset ==
    /\ Terminated
    /\ pc' = "idle"
    /\ caller' = "none"
    /\ fn' = "none"
    /\ cascade_type' = "none"
    /\ threshold' = 0
    /\ cap' = "none"
    /\ pos' = 0
    /\ reads' = 0
    /\ prev_gray' = 0
    /\ frame_count' = 0
    /\ fps' = 0
    /\ events' = <<>>
    /\ result' = <<>>
    /\ returned' = FALSE
    /\ exitCode' = -1
    /\ attempts' = 0
    /\ writes' = 0
    /\ prevShake' = IF fn = "shake" /\ returned
                    THEN [valid |-> TRUE, threshold |-> threshold, events |-> result]
                    ELSE prevShake
    /\ UNCHANGED <<envVars, outFile>>

Next ==
    \/ MainStart
    \/ CallShake
    \/ CallDetect
    \/ ShakeOpen
    \/ ShakeReadFirst
    \/ ShakeStep
    \/ ShakeFinish
    \/ DetOpen
    \/ DetStep
    \/ DetFinish
    \/ MainReport
    \/ Reset

Spec == Init /\ [][Next]_vars

TypeOK ==
    /\ pc \in {"idle", "shake_open", "shake_first", "shake_loop", "shake_finish",
               "det_open", "det_loop", "det_finish", "main_report", "exited",
               "returned", "raised"}
    /\ cap \in {"none", "open", "released"}
    /\ pos \in 0..Len(video)
    /\ writes \in 0..1


\* ================================================================ claims
N == Len(video)

\* The loop has run to the end of the source.
ShakeLoopDone == fn = "shake" /\ (pc = "shake_finish" \/ cap = "released")
DetLoopDone == fn = "detect" /\ (pc = "det_finish" \/ cap = "released")

\* a/b < c/d for fractions with positive denominators
FracLess(x, y) == x.num * y.den < y.num * x.den

FramesOf(evs) == {evs[i].frame : i \in 1..Len(evs)}

\* C1: once the detector has returned, whichever the exit path, the frame
\* source it opened is no longer open.
C1_ReleasedOnEveryExit == returned => cap # "open"

\* C2: a run of main that ends normally, on an existing input file whose
\* source opens, has attempted the report write, whatever the mode and
\* however many frames or events there are; only the missing-input run,
\* which exits nonzero, writes no report.
C2_MainAlwaysAttemptsReport ==
    (caller = "main" /\ pc = "exited" /\ (fileExists => canOpen)) =>
        \/ attempts >= 1
        \/ (~fileExists /\ exitCode = 1)

\* C3: detect_faces_objects with a cascade type other than 'face' and
\* 'object' never reads a frame and never opens the output file, and when it
\* ends it has returned the empty list.
C3_UnknownCascadeFailsFast ==
    (fn = "detect" /\ cascade_type \notin {"face", "object"}) =>
        /\ reads = 0
        /\ pos = 0
        /\ attempts = 0
        /\ writes = 0
        /\ pc \notin {"det_loop", "det_finish", "raised"}
        /\ (pc # "det_open" => returned /\ result = <<>>)

C3_Witness ==
    /\ fn = "detect"
    /\ cascade_type = "other"
    /\ returned
    /\ cap = "open"
    /\ N >= 1
    /\ outFile.exists

\* C4: main on a missing input file exits with status 1 at once: no source
\* is opened, no detector runs, no frame is read and no output file is
\* opened or written.
C4_MissingInputExits ==
    (caller = "main" /\ ~fileExists) =>
        /\ pc = "exited"
        /\ exitCode = 1
        /\ cap = "none"
        /\ fn = "none"
        /\ ~returned
        /\ reads = 0
        /\ attempts = 0
        /\ writes = 0
        /\ outFile = NoFile

C4_Witness == caller = "main" /\ ~fileExists /\ pc = "exited" /\ exitCode = 1

\* C5: the frame indices of the shake events, while they are collected and
\* in the returned list, are strictly increasing and lie in 1..N-1.
C5_ShakeFramesIncreasing ==
    fn = "shake" =>
        \A evs \in {events, result} :
            /\ \A i \in 1..Len(evs) : evs[i].frame \in 1..(N - 1)
            /\ \A i, j \in 1..Len(evs) : i < j => evs[i].frame < evs[j].frame

C5_Witness ==
    /\ fn = "shake"
    /\ returned
    /\ N = MaxFrames
    /\ Len(result) = N - 1
    /\ result[Len(result)].frame = N - 1

\* C6: once detect_faces_objects has read the whole source, its list has
\* exactly one event for each 0-based frame index whose frame got at least
\* one box and none for the others, in increasing frame order; each count is
\* at least 1 and is the number of boxes in locations, which are the
\* classifier's boxes in the classifier's order.
C6_DetectionsExact ==
    DetLoopDone =>
        /\ \A k \in 0..(N - 1) :
              Cardinality({i \in 1..Len(events) : events[i].frame = k})
                  = IF Len(DetectMultiScale(video[k + 1])) >= 1 THEN 1 ELSE 0
        /\ \A i \in 1..Len(events) :
              /\ events[i].frame \in 0..(N - 1)
              /\ events[i].count >= 1
              /\ events[i].count = Len(events[i].locations)
              /\ events[i].locations = DetectMultiScale(video[events[i].frame + 1])
        /\ \A i, j \in 1..Len(events) : i < j => events[i].frame < events[j].frame

C6_Witness ==
    /\ fn = "detect"
    /\ returned
    /\ cap = "released"
    /\ N = MaxFrames
    /\ Len(events) = 2
    /\ events[1].frame = 0
    /\ events[1].count = 2
    /\ \E k \in 1..N : video[k] = 0

\* C7: of two returned shake runs on the same video, every event of the run
\* with the larger threshold is an event of the run with the smaller one,
\* with the same frame index and magnitude.
C7_SubsetOf(hi, lo) ==
    \A i \in 1..Len(hi) : \E j \in 1..Len(lo) :
        /\ lo[j].frame = hi[i].frame
        /\ lo[j].magnitude = hi[i].magnitude

C7_ThresholdMonotone ==
    (fn = "shake" /\ returned /\ prevShake.valid) =>
        /\ prevShake.threshold < threshold => C7_SubsetOf(result, prevShake.events)
        /\ threshold < prevShake.threshold => C7_SubsetOf(prevShake.events, result)

C7_Witness ==
    /\ fn = "shake"
    /\ returned
    /\ prevShake.valid
    /\ prevShake.threshold < threshold
    /\ Len(result) >= 1
    /\ Len(prevShake.events) > Len(result)

\* C8: a run writes at most one report; when it has written one, the source
\* was exhausted and released and every frame counted, the file holds the
\* whole event list with a total equal to its length, and the returned list
\* is the written list; a detector that returns after its loop has written
\* exactly one.
C8_ReportWrittenOnceAtEnd ==
    /\ writes <= 1
    /\ writes = 1 =>
          /\ pos = N
          /\ reads = N + 1
          /\ frame_count = N
          /\ cap = "released"
          /\ outFile.exists
          /\ outFile.kind = fn
          /\ outFile.events = events
          /\ outFile.total = Len(events)
          /\ returned
          /\ result = outFile.events
    /\ (returned /\ cap = "released") => writes = 1

C8_Witness ==
    /\ writes = 1
    /\ returned
    /\ Len(outFile.events) >= 2
    /\ outFile.total = 2

\* C9: with fps > 0 every event's timestamp is its frame index over fps, and
\* the timestamps of the event sequence are strictly increasing.
C9_TimestampIsFrameOverFps ==
    fps > 0 =>
        /\ \A i \in 1..Len(events) :
              /\ events[i].timestamp.den > 0
              /\ events[i].timestamp.num * fps = events[i].frame * events[i].timestamp.den
        /\ \A i, j \in 1..Len(events) :
              i < j => FracLess(events[i].timestamp, events[j].timestamp)

C9_Witness ==
    /\ fps = MaxFps
    /\ returned
    /\ Len(events) >= 2
    /\ events[1].frame = 1

\* C10: in detect_camera_shake the retained frame is the one read just before
\* the current one, and for every k in 1..frame_count-1 an event with frame
\* k exists exactly when the mean of frames k-1 and k is above the threshold
\* (equal emits nothing), its magnitude being that mean; after the loop
\* frame_count is N, and a static video yields no event for a threshold >= 0.
C10_PairMean(k) == FlowMean(video[k], video[k + 1])

C10_EventIffAboveThreshold ==
    (fn = "shake" /\ (pc = "shake_loop" \/ ShakeLoopDone)) =>
        /\ pc = "shake_loop" => prev_gray = video[pos] /\ frame_count = pos
        /\ ShakeLoopDone => frame_count = N
        /\ \A k \in 1..(frame_count - 1) :
              /\ (k \in FramesOf(events)) <=> (C10_PairMean(k) > threshold)
              /\ \A i \in 1..Len(events) :
                    events[i].frame = k => events[i].magnitude = C10_PairMean(k)
        /\ ((\A k \in 1..(N - 1) : C10_PairMean(k) = 0) /\ threshold >= 0)
              => events = <<>>

C10_Witness ==
    /\ fn = "shake"
    /\ returned
    /\ cap = "released"
    /\ N = 3
    /\ video[1] # video[3]
    /\ C10_PairMean(1) = threshold
    /\ C10_PairMean(2) > threshold
    /\ FramesOf(result) = {2}

====
